---- MODULE Spec2Model ----
(***************************************************************************)
(* Model of the APT part of srslsud.py (Save/Restore Software List Script  *)
(* for Ubuntu and Debian): the helpers of apt_operations and its two       *)
(* directions, 'save' and 'load'.                                          *)
(*                                                                         *)
(* Python strings are sequences of one-character strings, so that split,   *)
(* join, "in" and startswith are computed as Python computes them.         *)
(* A call that can raise returns a record [ok, val, exc].                   *)
(***************************************************************************)
EXTENDS Integers, Sequences, FiniteSets, TLC

VARIABLES
    host,       \* the packages, source-list lines and key-tool output of the host
    distro,     \* aptsources.distro.get_distro() of the host: [id, codename]
    snapshot,   \* the file debs.json: NoFile or the saved document
    script,     \* the file apt.sh: NoFile or its lines
    last,       \* how the last run of apt_operations ended
    fnArg,      \* the argument of the helper function under test
    fnRets      \* the results of the calls of that helper so far

vars == <<host, distro, snapshot, script, last, fnArg, fnRets>>

(***************************************************************************)
(* Bounds of the model.                                                    *)
(***************************************************************************)
\* the most option tokens inside the brackets of a generated source line
MaxOpts == 3
\* the most path segments after the host of a generated URL
MaxSegs == 3

SeqsUpTo(S, n) == UNION {[1..k -> S] : k \in 0..n}

(***************************************************************************)
(* Python's str and list operations.                                       *)
(***************************************************************************)
Ok(v) == [ok |-> TRUE, val |-> v, exc |-> "none"]
Raise(e) == [ok |-> FALSE, val |-> <<>>, exc |-> e]

\* sub stands in s at place i
IsAt(s, sub, i) ==
    /\ i + Len(sub) - 1 <= Len(s)
    /\ SubSeq(s, i, i + Len(sub) - 1) = sub

\* s.find(sub, i-1) + 1: the first place >= i where sub occurs in s, 0 if none
Find(s, sub, i) ==
    IF Len(sub) = 0 THEN (IF i <= Len(s) + 1 THEN i ELSE 0)
    ELSE LET n == Len(sub)
             hits == {k \in i..(Len(s) - n + 1) :
                         s[k] = sub[1] /\ SubSeq(s, k, k + n - 1) = sub}
         IN  IF hits = {} THEN 0
             ELSE CHOOSE k \in hits : \A j \in hits : k <= j

\* sub in s
Contains(sub, s) == Find(s, sub, 1) # 0

\* s.startswith(p)
StartsWith(s, p) == IsAt(s, p, 1)

RECURSIVE SplitN(_, _, _)
\* s.split(sep, n) for n >= 0
SplitN(s, sep, n) ==
    LET i == Find(s, sep, 1)
    IN  IF n = 0 \/ i = 0 THEN <<s>>
        ELSE <<SubSeq(s, 1, i - 1)>>
                 \o SplitN(SubSeq(s, i + Len(sep), Len(s)), sep, n - 1)

\* s.split(sep)
Split(s, sep) == SplitN(s, sep, Len(s))

Whitespace == {" ", "\n", "\t"}

\* the first place >= i of s that holds no whitespace, Len(s) + 1 if none
SkipWs(s, i) ==
    IF \E k \in i..Len(s) : s[k] \notin Whitespace
    THEN CHOOSE k \in i..Len(s) :
             s[k] \notin Whitespace /\ \A j \in i..(k - 1) : s[j] \in Whitespace
    ELSE Len(s) + 1

\* the first place >= i of s that holds whitespace, Len(s) + 1 if none
SkipWord(s, i) ==
    IF \E k \in i..Len(s) : s[k] \in Whitespace
    THEN CHOOSE k \in i..Len(s) :
             s[k] \in Whitespace /\ \A j \in i..(k - 1) : s[j] \notin Whitespace
    ELSE Len(s) + 1

RECURSIVE SplitWsFrom(_, _)
SplitWsFrom(s, i) ==
    LET b == SkipWs(s, i)
        e == SkipWord(s, b)
    IN  IF b > Len(s) THEN <<>>
        ELSE <<SubSeq(s, b, e - 1)>> \o SplitWsFrom(s, e)

\* s.split(): the words between runs of whitespace
SplitWs(s) == SplitWsFrom(s, 1)

RECURSIVE Join(_, _)
\* sep.join(list)
Join(list, sep) ==
    IF Len(list) = 0 THEN <<>>
    ELSE IF Len(list) = 1 THEN list[1]
    ELSE list[1] \o sep \o Join(Tail(list), sep)

\* s.strip()
Strip(s) ==
    LET b == SkipWs(s, 1)
        e == CHOOSE k \in 0..Len(s) :
                 /\ \A j \in (k + 1)..Len(s) : s[j] \in Whitespace
                 /\ (k = 0 \/ s[k] \notin Whitespace)
    IN  IF b > e THEN <<>> ELSE SubSeq(s, b, e)

\* x in list
InList(x, list) == \E i \in 1..Len(list) : list[i] = x

\* list.remove(x): the list without the first element equal to x
ListRemove(list, x) ==
    LET i == CHOOSE k \in 1..Len(list) :
                 list[k] = x /\ \A j \in 1..(k - 1) : list[j] # x
    IN  SubSeq(list, 1, i - 1) \o SubSeq(list, i + 1, Len(list))

(***************************************************************************)
(* String literals of the source.                                          *)
(***************************************************************************)
SIGNED_BY ==
    <<"s","i","g","n","e","d","-","b","y">>
PPA_HOST ==
    <<"p","p","a",".","l","a","u","n","c","h","p","a","d",".","n","e","t","/">>
S_ppa ==
    <<"p","p","a",":">>
S_deb ==
    <<"d","e","b">>
S_deb_src ==
    <<"d","e","b","-","s","r","c">>

(***************************************************************************)
(* apt_remove_word_from_brackets_in_sources_list(st, wordtoremove)         *)
(***************************************************************************)
RECURSIVE RemoveLoop(_, _, _)
\* "for sb in sss: if wordtoremove in sb: sss.remove(sb)": the loop walks the
\* list by position while remove() shortens it
RemoveLoop(sss, wordtoremove, i) ==
    IF i > Len(sss) THEN sss
    ELSE IF Contains(wordtoremove, sss[i])
         THEN RemoveLoop(ListRemove(sss, sss[i]), wordtoremove, i + 1)
         ELSE RemoveLoop(sss, wordtoremove, i + 1)

apt_remove_word_from_brackets_in_sources_list(st, wordtoremove) ==
    LET ss == Split(st, <<"]">>)
    IN  IF Len(ss) # 2 THEN Ok(st)
        ELSE LET sss == RemoveLoop(SplitWs(ss[1]), wordtoremove, 1)
                 st1 == Join(sss, <<" ">>) \o <<"]">> \o ss[2]
                 t == SplitWs(st1)
             IN  IF Contains(<<"[">>, st1) THEN Ok(st1)
                 ELSE IF Len(t) < 2 THEN Raise("IndexError")
                 ELSE Ok(Join([t EXCEPT ![2] = <<"[">> \o t[2]], <<" ">>))

(***************************************************************************)
(* apt_get_ppa_shortcut(url)                                               *)
(***************************************************************************)
apt_get_ppa_shortcut(url) ==
    LET parts == Split(url, PPA_HOST)
    IN  IF Len(parts) < 2 THEN Raise("IndexError")
        ELSE LET ppa_split == SplitN(parts[2], <<"/">>, 2)
             IN  IF Len(ppa_split) >= 2
                 THEN Ok(S_ppa \o ppa_split[1] \o <<"/">> \o ppa_split[2])
                 ELSE Ok(<<>>)

(***************************************************************************)
(* The state of the main specification while a helper is checked alone.    *)
(***************************************************************************)
NoFile == [exists |-> FALSE]
NotCalled == <<>>

IdleProgram ==
    /\ host = [pkgs |-> <<>>]
    /\ distro = [id |-> "none", codename |-> "none"]
    /\ snapshot = NoFile
    /\ script = NoFile
    /\ last = [op |-> "none", result |-> "none"]

(***************************************************************************)
(* SpecNorm: apt_remove_word_from_brackets_in_sources_list on source-list  *)
(* lines, applied once and then again to its own result.                   *)
(***************************************************************************)
O_arch ==
    <<"a","r","c","h","=","a","m","d","6","4">>
O_signed_a ==
    <<"s","i","g","n","e","d","-","b","y","=","/","a">>
O_signed_b ==
    <<"s","i","g","n","e","d","-","b","y","=","/","b">>
O_trusted ==
    <<"t","r","u","s","t","e","d","=","y","e","s">>
S_entry_tail ==
    <<" ","h","t","t","p",":","/","/","x","/","y"," ","b","i","o","n","i","c"," ","m","a","i","n">>

OptionTokens == {O_arch, O_signed_a, O_signed_b, O_trusted}

\* "deb [<options>] http://x/y bionic main"
EntryWithOptions(opts) ==
    S_deb \o <<" ", "[">> \o Join(opts, <<" ">>) \o <<"]">> \o S_entry_tail

\* "deb http://x/y bionic main"
EntryWithoutOptions == S_deb \o S_entry_tail

NormInputs ==
    {EntryWithOptions(opts) : opts \in SeqsUpTo(OptionTokens, MaxOpts)}
        \cup {EntryWithoutOptions}

InitNorm ==
    /\ IdleProgram
    /\ fnArg \in NormInputs
    /\ fnRets = NotCalled

\* the first call normalizes the line, the second normalizes the result
CallNormalize ==
    /\ Len(fnRets) < 2
    /\ Len(fnRets) = 1 => fnRets[1].ok
    /\ LET st == IF Len(fnRets) = 0 THEN fnArg ELSE fnRets[1].val
       IN  fnRets' = Append(fnRets,
                         apt_remove_word_from_brackets_in_sources_list(st, SIGNED_BY))
    /\ UNCHANGED <<host, distro, snapshot, script, last, fnArg>>

NextNorm == CallNormalize

SpecNorm == InitNorm /\ [][NextNorm]_vars

(***************************************************************************)
(* SpecPpa: apt_get_ppa_shortcut on URLs with and without the Launchpad    *)
(* host marker.                                                            *)
(***************************************************************************)
S_http ==
    <<"h","t","t","p",":","/","/">>
S_example ==
    <<"e","x","a","m","p","l","e",".","c","o","m","/">>
S_lpcontent ==
    <<"p","p","a",".","l","a","u","n","c","h","p","a","d","c","o","n","t","e","n","t",".","n","e","t","/">>
S_someuser ==
    <<"s","o","m","e","u","s","e","r">>
S_someppa ==
    <<"s","o","m","e","p","p","a">>
S_ubuntu_path ==
    <<"u","b","u","n","t","u">>

UrlHosts == {PPA_HOST, S_example, S_lpcontent}
UrlSegments == {S_someuser, S_someppa, S_ubuntu_path, <<>>}

\* "http://<host>/<seg>/<seg>/..."
Url(h, segs) == S_http \o h \o Join(segs, <<"/">>)

PpaInputs ==
    {Url(h, segs) : h \in UrlHosts, segs \in SeqsUpTo(UrlSegments, MaxSegs)}

InitPpa ==
    /\ IdleProgram
    /\ fnArg \in PpaInputs
    /\ fnRets = NotCalled

CallPpaShortcut ==
    /\ Len(fnRets) = 0
    /\ fnRets' = <<apt_get_ppa_shortcut(fnArg)>>
    /\ UNCHANGED <<host, distro, snapshot, script, last, fnArg>>

NextPpa == CallPpaShortcut

SpecPpa == InitPpa /\ [][NextPpa]_vars

(***************************************************************************)
(* More of Python's str and list operations.                               *)
(***************************************************************************)
\* s.replace(old, new)
Replace(s, old, new) == Join(Split(s, old), new)

\* the characters of the model's strings in code-point order
CharOrder ==
    <<" ","-",".","0","1","2","3","4","5","6","7","8","9","<",">","@","A","B","C","D","E","F","G","H","I","J","K","L","M","N","O","P","Q","R","S","T","U","V","W","X","Y","Z","_","a","b","c","d","e","f","g","h","i","j","k","l","m","n","o","p","q","r","s","t","u","v","w","x","y","z">>
CodePoints ==
    [c \in {CharOrder[k] : k \in 1..Len(CharOrder)} |->
        CHOOSE k \in 1..Len(CharOrder) : CharOrder[k] = c]
CodePoint(c) == CodePoints[c]

RECURSIVE StrLess(_, _)
\* a < b for str
StrLess(a, b) ==
    IF Len(b) = 0 THEN FALSE
    ELSE IF Len(a) = 0 THEN TRUE
    ELSE IF a[1] # b[1] THEN CodePoint(a[1]) < CodePoint(b[1])
    ELSE StrLess(Tail(a), Tail(b))

RECURSIVE Sorted(_)
\* sorted(S) of a set of str
Sorted(S) ==
    IF S = {} THEN <<>>
    ELSE LET m == CHOOSE x \in S : \A y \in S \ {x} : StrLess(x, y)
         IN  <<m>> \o Sorted(S \ {m})

RECURSIVE Concat(_)
\* the lists of a list of lists, one after the other
Concat(lists) ==
    IF Len(lists) = 0 THEN <<>> ELSE Head(lists) \o Concat(Tail(lists))

\* the set of the elements of a list
Elems(list) == {list[i] : i \in 1..Len(list)}

(***************************************************************************)
(* The host: what python-apt, aptsources and apt-key report.               *)
(***************************************************************************)
\* the packages of the host
NumPkgs == 2
\* the most package-index files of a candidate version
MaxFiles == 2

N_vim ==
    <<"v","i","m">>
N_docker_ce ==
    <<"d","o","c","k","e","r","-","c","e">>
N_git ==
    <<"g","i","t">>
S_Ubuntu ==
    <<"U","b","u","n","t","u">>
S_Debian ==
    <<"D","e","b","i","a","n">>
S_Pop ==
    <<"P","o","p">>
S_LP_PPA ==
    <<"L","P","-","P","P","A">>
S_LP_origin ==
    <<"L","P","-","P","P","A","-","s","o","m","e","u","s","e","r","-","s","o","m","e","p","p","a">>
S_Docker ==
    <<"D","o","c","k","e","r">>
S_now ==
    <<"n","o","w">>
S_bionic ==
    <<"b","i","o","n","i","c">>
S_buster ==
    <<"b","u","s","t","e","r">>
S_focal ==
    <<"f","o","c","a","l">>
S_main ==
    <<"m","a","i","n">>
S_universe ==
    <<"u","n","i","v","e","r","s","e">>
S_stable ==
    <<"s","t","a","b","l","e">>
S_Launchpad ==
    <<"L","a","u","n","c","h","p","a","d">>
S_DPI ==
    <<"D","e","b","i","a","n"," ","P","a","c","k","a","g","e"," ","I","n","d","e","x">>
S_status_label ==
    <<"D","e","b","i","a","n"," ","d","p","k","g"," ","s","t","a","t","u","s"," ","f","i","l","e">>
U_ubuntu ==
    <<"h","t","t","p",":","/","/","a","r","c","h","i","v","e",".","u","b","u","n","t","u",".","c","o","m","/","u","b","u","n","t","u">>
U_debian ==
    <<"h","t","t","p",":","/","/","d","e","b",".","d","e","b","i","a","n",".","o","r","g","/","d","e","b","i","a","n">>
U_ppa ==
    <<"h","t","t","p",":","/","/","p","p","a",".","l","a","u","n","c","h","p","a","d",".","n","e","t","/","s","o","m","e","u","s","e","r","/","s","o","m","e","p","p","a","/","u","b","u","n","t","u">>
U_ppa_content ==
    <<"h","t","t","p","s",":","/","/","p","p","a",".","l","a","u","n","c","h","p","a","d","c","o","n","t","e","n","t",".","n","e","t","/","s","o","m","e","u","s","e","r","/","s","o","m","e","p","p","a","/","u","b","u","n","t","u">>
U_docker ==
    <<"h","t","t","p","s",":","/","/","d","o","w","n","l","o","a","d",".","d","o","c","k","e","r",".","c","o","m","/","l","i","n","u","x","/","u","b","u","n","t","u">>
S_describe_tail ==
    <<" ","b","i","o","n","i","c","/","m","a","i","n"," ","a","m","d","6","4"," ","P","a","c","k","a","g","e","s">>
S_status_describe ==
    <<"/","v","a","r","/","l","i","b","/","d","p","k","g","/","s","t","a","t","u","s">>
LB_ppa ==
    <<"S","o","m","e"," ","P","P","A">>
LB_docker ==
    <<"D","o","c","k","e","r"," ","C","E">>
S_OBS ==
    <<"b","u","i","l","d",".","o","p","e","n","s","u","s","e",".","o","r","g">>
S_homex ==
    <<"h","o","m","e","\\","x">>
S_home_colon ==
    <<"h","o","m","e",":">>
S_home_colon_slash ==
    <<"h","o","m","e",":","/">>
S_x3a ==
    <<"\\","x","3","a">>
L_src_ubuntu ==
    <<"d","e","b"," ","h","t","t","p",":","/","/","a","r","c","h","i","v","e",".","u","b","u","n","t","u",".","c","o","m","/","u","b","u","n","t","u"," ","b","i","o","n","i","c"," ","m","a","i","n"," ","u","n","i","v","e","r","s","e">>
L_src_ubuntu_src ==
    <<"d","e","b","-","s","r","c"," ","h","t","t","p",":","/","/","a","r","c","h","i","v","e",".","u","b","u","n","t","u",".","c","o","m","/","u","b","u","n","t","u"," ","b","i","o","n","i","c"," ","m","a","i","n"," ","u","n","i","v","e","r","s","e">>
L_src_disabled ==
    <<"#"," ","d","e","b"," ","h","t","t","p",":","/","/","a","r","c","h","i","v","e",".","c","a","n","o","n","i","c","a","l",".","c","o","m","/","u","b","u","n","t","u"," ","b","i","o","n","i","c"," ","p","a","r","t","n","e","r">>
L_src_debian ==
    <<"d","e","b"," ","h","t","t","p",":","/","/","d","e","b",".","d","e","b","i","a","n",".","o","r","g","/","d","e","b","i","a","n"," ","b","u","s","t","e","r"," ","m","a","i","n">>
L_src_ppa ==
    <<"d","e","b"," ","h","t","t","p",":","/","/","p","p","a",".","l","a","u","n","c","h","p","a","d",".","n","e","t","/","s","o","m","e","u","s","e","r","/","s","o","m","e","p","p","a","/","u","b","u","n","t","u"," ","b","i","o","n","i","c"," ","m","a","i","n">>
L_src_ppa_content ==
    <<"d","e","b"," ","h","t","t","p","s",":","/","/","p","p","a",".","l","a","u","n","c","h","p","a","d","c","o","n","t","e","n","t",".","n","e","t","/","s","o","m","e","u","s","e","r","/","s","o","m","e","p","p","a","/","u","b","u","n","t","u"," ","b","i","o","n","i","c"," ","m","a","i","n">>
L_src_docker ==
    <<"d","e","b"," ","[","s","i","g","n","e","d","-","b","y","=","/","u","s","r","/","s","h","a","r","e","/","k","e","y","r","i","n","g","s","/","d","o","c","k","e","r",".","g","p","g"," ","a","r","c","h","=","a","m","d","6","4","]"," ","h","t","t","p","s",":","/","/","d","o","w","n","l","o","a","d",".","d","o","c","k","e","r",".","c","o","m","/","l","i","n","u","x","/","u","b","u","n","t","u"," ","b","i","o","n","i","c"," ","s","t","a","b","l","e">>
L_src_docker_test ==
    <<"d","e","b"," ","[","a","r","c","h","=","a","m","d","6","4","]"," ","h","t","t","p","s",":","/","/","d","o","w","n","l","o","a","d",".","d","o","c","k","e","r",".","c","o","m","/","l","i","n","u","x","/","u","b","u","n","t","u"," ","b","i","o","n","i","c"," ","t","e","s","t">>
N_oldpkg ==
    <<"o","l","d","p","k","g">>

\* the name of the i-th package of the host
PkgName(i) ==
    CASE i = 1 -> N_vim
      [] i = 2 -> N_docker_ce
      [] OTHER -> N_git \o [k \in 1..(i - 3) |-> "2"]

\* Origin.origin of the first origin of an installed version
OriginNames == {S_Ubuntu, S_Debian, S_LP_origin, S_Docker}
ArchiveNames == {S_now, S_bionic}

\* Origin.label and Origin.component go with Origin.origin
OriginLabel(o) ==
    CASE o = S_LP_origin -> LB_ppa
      [] o = S_Docker -> LB_docker
      [] OTHER -> o

OriginComponent(o, i) ==
    CASE o = S_Docker -> S_stable
      [] o = S_Ubuntu /\ i % 2 = 0 -> S_universe
      [] OTHER -> S_main

\* a package that is installed automatically
AutoInstalled ==
    [manual |-> FALSE, origin |-> S_Ubuntu, archive |-> S_bionic,
     trusted |-> TRUE, nfiles |-> 1]

\* the first package: every combination of origin, archive and trust, with
\* no or MaxFiles package-index files behind its candidate version
PkgChoices ==
    {AutoInstalled} \cup
    [manual : {TRUE}, origin : OriginNames, archive : ArchiveNames,
     trusted : BOOLEAN, nfiles : {0, MaxFiles}]

\* the other packages: one of each kind with a repository
OtherPkgChoices ==
    {AutoInstalled,
     [manual |-> TRUE, origin |-> S_Ubuntu, archive |-> S_bionic,
      trusted |-> TRUE, nfiles |-> 1],
     [manual |-> TRUE, origin |-> S_LP_origin, archive |-> S_bionic,
      trusted |-> TRUE, nfiles |-> 1],
     [manual |-> TRUE, origin |-> S_Docker, archive |-> S_bionic,
      trusted |-> TRUE, nfiles |-> 1]}

\* which source-list files the host has: all of them, none for Docker, or
\* the PPA at ppa.launchpadcontent.net
SourceConfigs == {"full", "nodocker", "lpcontent"}

\* the hosts: a source configuration other than "full" only where a package
\* comes from the origin it changes, a dependency only between manual packages
\* of a host with all its source-list files
Hosts ==
    {h \in [pkgs : [1..NumPkgs -> PkgChoices \cup OtherPkgChoices],
            sources : SourceConfigs, dep : BOOLEAN] :
        /\ h.pkgs[1] \in PkgChoices
        /\ \A i \in 2..NumPkgs : h.pkgs[i] \in OtherPkgChoices
        /\ h.sources = "nodocker" =>
               \E i \in 1..NumPkgs : h.pkgs[i].manual /\ h.pkgs[i].origin = S_Docker
        /\ h.sources = "lpcontent" =>
               \E i \in 1..NumPkgs : h.pkgs[i].manual /\ h.pkgs[i].origin = S_LP_origin
        /\ h.dep => /\ NumPkgs >= 2 /\ h.pkgs[1].manual /\ h.pkgs[2].manual
                    /\ h.sources = "full"}

\* the archive URI of the package index of an origin
IndexUri(o, sources) ==
    CASE o = S_Ubuntu -> U_ubuntu
      [] o = S_Debian -> U_debian
      [] o = S_LP_origin -> IF sources = "lpcontent" THEN U_ppa_content ELSE U_ppa
      [] OTHER -> U_docker

\* cand.file_list with sources.find_index(f) of each file: the package
\* indexes, then the dpkg status file, which has no index or one that is
\* not a package index
FileList(h, i) ==
    [k \in 1..h.pkgs[i].nfiles |->
        [has_index |-> TRUE, label |-> S_DPI,
         describe |-> IndexUri(h.pkgs[i].origin, h.sources) \o S_describe_tail]]
    \o <<[has_index |-> (i % 2 = 1), label |-> S_status_label,
          describe |-> S_status_describe]>>

\* apt.Cache(): the packages with what the code reads of them
Cache(h) ==
    [i \in 1..NumPkgs |->
        [name |-> PkgName(i),
         is_installed |-> TRUE,
         is_auto_installed |-> ~h.pkgs[i].manual,
         dependencies |-> IF i = 1 /\ h.dep /\ NumPkgs >= 2
                          THEN {PkgName(2)} ELSE {},
         origins |-> <<[origin |-> h.pkgs[i].origin,
                        label |-> OriginLabel(h.pkgs[i].origin),
                        archive |-> h.pkgs[i].archive,
                        component |-> OriginComponent(h.pkgs[i].origin, i),
                        trusted |-> h.pkgs[i].trusted]>>,
         file_list |-> FileList(h, i)]]

\* cache[name]
CacheGet(cache, name) ==
    cache[CHOOSE i \in 1..NumPkgs : cache[i].name = name]

\* sourceslist.SourcesList().list, each entry as str() gives it
RawSourcesList(sources) ==
    <<L_src_ubuntu \o <<"\n">>, L_src_ubuntu_src \o <<"\n">>, L_src_disabled,
      L_src_debian>>
    \o (IF sources = "lpcontent" THEN <<L_src_ppa_content>> ELSE <<L_src_ppa>>)
    \o (IF sources = "nodocker" THEN <<>>
        ELSE <<<<" ">> \o L_src_docker, L_src_docker_test>>)

(***************************************************************************)
(* apt_sources_list()                                                      *)
(***************************************************************************)
apt_sources_list(raw) ==
    LET stripped == [k \in 1..Len(raw) |-> Strip(raw[k])]
        kept == SelectSeq(stripped, LAMBDA s_strip :
                    StartsWith(s_strip, S_deb) /\ ~StartsWith(s_strip, S_deb_src))
    IN  [k \in 1..Len(kept) |-> Replace(kept[k], <<"\n">>, <<>>)]

\* sources_list on a host of each configuration
SourcesFull == apt_sources_list(RawSourcesList("full"))
SourcesNoDocker == apt_sources_list(RawSourcesList("nodocker"))
SourcesLpContent == apt_sources_list(RawSourcesList("lpcontent"))

HostSourcesList(h) ==
    CASE h.sources = "full" -> SourcesFull
      [] h.sources = "nodocker" -> SourcesNoDocker
      [] OTHER -> SourcesLpContent

(***************************************************************************)
(* apt_key_list()                                                          *)
(***************************************************************************)
S_pub ==
    <<"p","u","b">>
S_uid ==
    <<"u","i","d">>
Digits ==
    <<"0","1","2","3","4","5","6","7","8","9">>

\* the lines apt-key prints on the host
KeyToolOutput ==
    <<<<"t","r","u",":",":","1",":","1","6","0","0","0","0","0","0","0","0",":","0",":","3",":","1",":","5">>,
      <<"p","u","b",":","-",":","4","0","9","6",":","1",":","A","A","A","A","1","1","1","1",":","1","4","0","0","0","0","0","0","0","0",":",":",":","-",":",":",":","s","c","S","C",":">>,
      <<"f","p","r",":",":",":",":",":",":",":",":",":","F","F","F","F","A","A","A","A","1","1","1","1",":">>,
      <<"u","i","d",":","-",":",":",":",":","1","4","0","0","0","0","0","0","0","0",":",":","H","1",":",":","L","a","u","n","c","h","p","a","d"," ","P","P","A"," ","f","o","r"," ","S","o","m","e"," ","U","s","e","r",":">>,
      <<"p","u","b",":","-",":","4","0","9","6",":","1",":","B","B","B","B","2","2","2","2",":","1","4","8","7","7","8","8","5","8","6",":",":",":","-",":",":",":","s","c","E","S","C",":">>,
      <<"u","i","d",":","-",":",":",":",":","1","4","8","7","7","8","8","5","8","6",":",":","H","2",":",":","D","o","c","k","e","r"," ","R","e","l","e","a","s","e"," ","(","C","E"," ","d","e","b",")"," ","<","d","o","c","k","e","r","@","d","o","c","k","e","r",".","c","o","m",">",":">>,
      <<"u","i","d",":","-",":",":",":",":","1","4","8","7","7","8","8","5","8","6",":",":","H","3",":",":","D","o","c","k","e","r"," ","I","n","c",":">>,
      <<"s","u","b",":","-",":","4","0","9","6",":","1",":","E","E","E","E","5","5","5","5",":","1","4","8","7","7","8","8","5","8","6",":",":",":",":",":",":","e",":">>,
      <<"p","u","b",":","-",":","4","0","9","6",":","1",":","C","C","C","C","3","3","3","3",":","1","3","3","6","7","7","0","9","3","6",":",":",":","-",":",":",":","s","c","S","C",":">>,
      <<"u","i","d",":","-",":",":",":",":","1","3","3","6","7","7","0","9","3","6",":",":","H","4",":",":","U","b","u","n","t","u"," ","A","r","c","h","i","v","e"," ","A","u","t","o","m","a","t","i","c"," ","S","i","g","n","i","n","g"," ","K","e","y",":">>,
      <<"p","u","b",":","-",":","2","0","4","8",":","1",":","D","D","D","D","4","4","4","4",":","1","5","0","0","0","0","0","0","0","0",":","1","7","0","0","0","0","0","0","0","0",":",":","-",":",":",":","s","c","S","C",":">>,
      <<"u","i","d",":","-",":",":",":",":","1","5","0","0","0","0","0","0","0","0",":",":","H","5",":",":","h","o","m","e","\\","x","3","a","u"," ","O","B","S"," ","P","r","o","j","e","c","t"," ","<","h","o","m","e","\\","x","3","a","u","@","b","u","i","l","d",".","o","p","e","n","s","u","s","e",".","o","r","g",">",":">>,
      <<"p", "u", "b", ":", "-", ":", "4", "0", "9", "6", ":", "1", ":", "F", "F", "F", "F", "6", "6", "6", "6", ":", "1", "5", "2", "0", "0", "0", "0", "0", "0", "0", ":", ":", ":", "-", ":", ":", ":", "s", "c", "S", "C", ":">>,
      <<"u", "i", "d", ":", "-", ":", ":", ":", ":", "1", "5", "2", "0", "0", "0", "0", "0", "0", "0", ":", ":", "H", "6", ":", ":", "V", "i", "m", " ", "B", "u", "i", "l", "d", "s", ":">>>>

\* int(s) returns for a string of digits
IsInt(s) == Len(s) > 0 /\ \A k \in 1..Len(s) : s[k] \in Elems(Digits)

\* the digit a character stands for
DigitOf(c) == (CHOOSE j \in 1..Len(Digits) : Digits[j] = c) - 1

RECURSIVE ParseInt(_, _)
\* int(s) of a string of digits, read after the value n of a prefix
ParseInt(s, n) ==
    IF s = <<>> THEN n ELSE ParseInt(Tail(s), n * 10 + DigitOf(Head(s)))

\* datetime.date.fromtimestamp(int(s)).isoformat(): the calendar day the
\* second falls on (in UTC), named by its number since 1970-01-01
IsoDate(s) == <<"day", ParseInt(s, 0) \div 86400>>

Unbound == [bound |-> FALSE]
Bound(v) == [bound |-> TRUE, val |-> v]

RECURSIVE KeyLoop(_, _, _, _, _, _)
\* the loop over the lines: name, key and expiry are the locals carried from
\* one line to the next, res the keys found so far
KeyLoop(lines, k, name, key, expiry, res) ==
    IF k > Len(lines) THEN Ok(res)
    ELSE
      LET fields == Split(lines[k], <<":">>)
          isPub == fields[1] = S_pub
          isUid == fields[1] = S_uid
      IN  IF (isPub \/ isUid) /\ Len(fields) < 10 THEN Raise("IndexError")
          ELSE IF isPub /\ ~IsInt(fields[6]) THEN Raise("ValueError")
          ELSE
            LET name1 == IF isPub \/ isUid THEN fields[10] ELSE name
                key1 == IF isPub THEN Bound(fields[5]) ELSE key
                expiry1 == IF isPub THEN Bound(IsoDate(fields[6])) ELSE expiry
            IN  IF name1 = <<>>
                THEN KeyLoop(lines, k + 1, name1, key1, expiry1, res)
                ELSE IF ~key1.bound THEN Raise("UnboundLocalError")
                ELSE KeyLoop(lines, k + 1, <<>>, key1, expiry1,
                         Append(res, [key |-> key1.val, expiry |-> expiry1.val,
                                      name |-> name1]))

apt_key_list(lines) == KeyLoop(lines, 1, <<>>, Unbound, Unbound, <<>>)

(***************************************************************************)
(* SpecKeys: apt_key_list on sequences of records of the key tool.         *)
(***************************************************************************)
MaxRecords == 3

\* "pub:-:4096:1:AAAA1111:1400000000:::-:::scSC:"
R_pub ==
    <<"p","u","b",":","-",":","4","0","9","6",":","1",":","A","A","A","A","1","1","1","1",":","1","4","0","0","0","0","0","0","0","0",":",":",":","-",":",":",":","s","c","S","C",":">>
\* "pub:-:1024:17:BBBB2222:1100000000:::-:Old Key::scSC:"
R_pub_named ==
    <<"p","u","b",":","-",":","1","0","2","4",":","1","7",":","B","B","B","B","2","2","2","2",":","1","1","0","0","0","0","0","0","0","0",":",":",":","-",":","O","l","d"," ","K","e","y",":",":","s","c","S","C",":">>
\* "pub:-:4096:1:CCCC3333::::-:::scSC:"
R_pub_no_expiry ==
    <<"p","u","b",":","-",":","4","0","9","6",":","1",":","C","C","C","C","3","3","3","3",":",":",":",":","-",":",":",":","s","c","S","C",":">>
\* "uid:-::::1400000000::H1::Some Repo:"
R_uid ==
    <<"u","i","d",":","-",":",":",":",":","1","4","0","0","0","0","0","0","0","0",":",":","H","1",":",":","S","o","m","e"," ","R","e","p","o",":">>
\* "uid:-::::1400000000::H2::Some Repo (old):"
R_uid_old ==
    <<"u","i","d",":","-",":",":",":",":","1","4","0","0","0","0","0","0","0","0",":",":","H","2",":",":","S","o","m","e"," ","R","e","p","o"," ","(","o","l","d",")",":">>
\* "sub:-:4096:1:EEEE5555:1400000000::::::e:"
R_sub ==
    <<"s","u","b",":","-",":","4","0","9","6",":","1",":","E","E","E","E","5","5","5","5",":","1","4","0","0","0","0","0","0","0","0",":",":",":",":",":",":","e",":">>

KeyRecords == {R_pub, R_pub_named, R_pub_no_expiry, R_uid, R_uid_old, R_sub}

KeyInputs == SeqsUpTo(KeyRecords, MaxRecords)

InitKeys ==
    /\ IdleProgram
    /\ fnArg \in KeyInputs
    /\ fnRets = NotCalled

CallAptKeyList ==
    /\ Len(fnRets) = 0
    /\ fnRets' = <<apt_key_list(fnArg)>>
    /\ UNCHANGED <<host, distro, snapshot, script, last, fnArg>>

NextKeys == CallAptKeyList

SpecKeys == InitKeys /\ [][NextKeys]_vars

(***************************************************************************)
(* apt_parse_debcache(package_list)                                        *)
(***************************************************************************)
\* apt_parse_debcache of one package without the test of index.label
DebcacheOfAnyIndex(cache, p) ==
    LET pkg == CacheGet(cache, p[1])
        found == SelectSeq(pkg.file_list, LAMBDA f : f.has_index)
    IN  [k \in 1..Len(found) |->
            [name |-> pkg.name, origin |-> p[2], describe |-> found[k].describe]]

\* the elements one package adds to out_list: one for each file of its
\* candidate version that has an index labelled as a package index
DebcacheOf(cache, p) ==
    LET pkg == CacheGet(cache, p[1])
        found == SelectSeq(pkg.file_list, LAMBDA f :
                     f.has_index /\ f.label = S_DPI)
    IN  [k \in 1..Len(found) |->
            [name |-> pkg.name, origin |-> p[2], describe |-> found[k].describe]]

apt_parse_debcache(cache, package_list) ==
    Concat([k \in 1..Len(package_list) |-> DebcacheOf(cache, package_list[k])])

(***************************************************************************)
(* apt_add_deb_url_to_deb_info(deb_info, sources_list)                     *)
(***************************************************************************)
debug_on == FALSE

\* a dict entry that may be missing
NoEntry == [has |-> FALSE, val |-> <<>>]
Entry(v) == [has |-> TRUE, val |-> v]

RECURSIVE DebUrlLoop(_, _, _, _)
\* the loop over sources_list for one element: every line that contains the
\* index URI sets 'deb-url'
DebUrlLoop(ds, sources_list, k, url) ==
    IF k > Len(sources_list) THEN Ok(url)
    ELSE IF Contains(ds, sources_list[k])
         THEN LET n == apt_remove_word_from_brackets_in_sources_list(
                           sources_list[k], SIGNED_BY)
              IN  IF n.ok THEN DebUrlLoop(ds, sources_list, k + 1, Entry(n.val))
                  ELSE n
         ELSE DebUrlLoop(ds, sources_list, k + 1, url)

\* one element with its 'deb-url'
AddDebUrl(t, sources_list) ==
    LET r == DebUrlLoop(Split(t.describe, <<" ">>)[1], sources_list, 1, NoEntry)
    IN  IF ~r.ok THEN r
        ELSE IF debug_on /\ ~r.val.has THEN Raise("KeyError")
        ELSE Ok([name |-> t.name, origin |-> t.origin, describe |-> t.describe,
                 deb_url |-> r.val])

\* the first call that raised among a list of calls, or the list of results
AllOk(calls) ==
    IF \E k \in 1..Len(calls) : ~calls[k].ok
    THEN calls[CHOOSE k \in 1..Len(calls) :
                   ~calls[k].ok /\ \A j \in 1..(k - 1) : calls[j].ok]
    ELSE Ok([k \in 1..Len(calls) |-> calls[k].val])

apt_add_deb_url_to_deb_info(deb_info, sources_list) ==
    AllOk([k \in 1..Len(deb_info) |-> AddDebUrl(deb_info[k], sources_list)])

(***************************************************************************)
(* extract_unique_elements(elements_list, repo_key_name)                   *)
(***************************************************************************)
RECURSIVE UniqueLoop(_, _, _, _)
UniqueLoop(elements_list, repo_key_name, k, out_list) ==
    IF k > Len(elements_list) THEN out_list
    ELSE UniqueLoop(elements_list, repo_key_name, k + 1,
             IF InList(elements_list[k][repo_key_name], out_list) THEN out_list
             ELSE Append(out_list, elements_list[k][repo_key_name]))

extract_unique_elements(elements_list, repo_key_name) ==
    UniqueLoop(elements_list, repo_key_name, 1, <<>>)

(***************************************************************************)
(* apt_operations('save')                                                  *)
(***************************************************************************)
UpperChars ==
    <<"A","B","C","D","E","F","G","H","I","J","K","L","M","N","O","P","Q","R","S","T","U","V","W","X","Y","Z">>
LowerChars ==
    <<"a","b","c","d","e","f","g","h","i","j","k","l","m","n","o","p","q","r","s","t","u","v","w","x","y","z">>

\* s.lower()
LowerOf ==
    [c \in {UpperChars[j] : j \in 1..Len(UpperChars)} |->
        LowerChars[CHOOSE j \in 1..Len(UpperChars) : UpperChars[j] = c]]
Lower(s) ==
    [k \in 1..Len(s) |->
        IF s[k] \in DOMAIN LowerOf THEN LowerOf[s[k]] ELSE s[k]]

\* bytes(s, encoding='utf-8').decode("unicode_escape"), for the one escape
\* apt-key writes in a user id: "\x3a" for ":"
UnicodeEscape(s) == Replace(s, S_x3a, <<":">>)

\* the class of the distro object: the official origin name, or "" when the
\* distro is neither Ubuntu nor Debian (then only an error is printed)
distro_name(d) ==
    IF d.id = S_Ubuntu THEN S_Ubuntu
    ELSE IF d.id = S_Debian THEN S_Debian
    ELSE <<>>

\* manual: the installed packages that are not installed automatically
manual(cache) ==
    {i \in DOMAIN cache : cache[i].is_installed /\ ~cache[i].is_auto_installed}

\* depends: the names the manual packages depend on
depends(cache) == UNION {cache[i].dependencies : i \in manual(cache)}

\* installed: the sorted names of the manual packages no manual package
\* depends on
installed(cache) ==
    Sorted({cache[i].name : i \in manual(cache)} \ depends(cache))

\* the four tests of the sorting loop on the first origin of a package
IsUbuntu(o) == o.origin = S_Ubuntu

IsThirdpartyPpa(o) ==
    /\ o.origin # S_Ubuntu
    /\ o.archive # S_now
    /\ o.trusted
    /\ StartsWith(o.origin, S_LP_PPA)

IsThirdpartyDeb(o) ==
    /\ o.origin # S_Ubuntu
    /\ o.archive # S_now
    /\ o.trusted
    /\ ~StartsWith(o.origin, S_LP_PPA)

IsLocal(o) == o.archive = S_now \/ ~o.trusted

\* the packages of installed, each with its first origin: [pkg.name, o]
WithOrigin(cache, names) ==
    [k \in 1..Len(names) |-> <<names[k], CacheGet(cache, names[k]).origins[1]>>]

\* the four lists the sorting loop fills from the packages with origins
pkg_ubuntu(pkgs) == SelectSeq(pkgs, LAMBDA p : IsUbuntu(p[2]))
pkg_thirdparty_ppa(pkgs) == SelectSeq(pkgs, LAMBDA p : IsThirdpartyPpa(p[2]))
pkg_thirdparty_deb(pkgs) == SelectSeq(pkgs, LAMBDA p : IsThirdpartyDeb(p[2]))
pkg_local(pkgs) ==
    LET loc == SelectSeq(pkgs, LAMBDA p : IsLocal(p[2]))
    IN  [k \in 1..Len(loc) |-> loc[k][1]]

\* the keys of the host, as apt_key_list() returns them
HostKeys == apt_key_list(KeyToolOutput)

package_stats(pkgs) ==
    [total |-> Len(pkgs),
     official |-> Len(pkg_ubuntu(pkgs)),
     ppas |-> Len(pkg_thirdparty_ppa(pkgs)),
     thirdparty |-> Len(pkg_thirdparty_deb(pkgs)),
     local |-> Len(pkg_local(pkgs))]

official_packages(pkg_ubuntu_info) ==
    [k \in 1..Len(pkg_ubuntu_info) |->
        [name |-> pkg_ubuntu_info[k].name,
         component |-> pkg_ubuntu_info[k].origin.component,
         archive |-> pkg_ubuntu_info[k].origin.archive]]

\* lpp_info of one element: lpp['deb-url'] raises when the key is missing
LppInfo(lpp) ==
    IF ~lpp.deb_url.has THEN Raise("KeyError")
    ELSE LET sc == apt_get_ppa_shortcut(lpp.deb_url.val)
         IN  IF ~sc.ok THEN sc
             ELSE Ok([name |-> lpp.name, repo |-> sc.val])

launchpad_ppa_packages(pkg_thirdparty_ppa_info) ==
    AllOk([k \in 1..Len(pkg_thirdparty_ppa_info) |->
              LppInfo(pkg_thirdparty_ppa_info[k])])

\* the OpenSuSe Build Service test e6 of a key name against a 'deb-url'
ObsMatch(kname, deb_url) ==
    IF ~Contains(S_OBS, kname) THEN FALSE
    ELSE IF Contains(S_homex, kname)
    THEN Contains(Split(Replace(UnicodeEscape(kname), S_home_colon,
                                S_home_colon_slash), <<" ">>)[1], deb_url)
    ELSE Contains(Split(kname, <<" ">>)[1], deb_url)

\* e1 or e2 or e3 or e4 or e5 or e6 for an element p and a key k
OtherHeuristics(p, k) ==
    \/ Contains(k.name, p.name)
    \/ Contains(p.name, k.name)
    \/ (Len(p.origin.origin) > 0 /\ Contains(p.origin.origin, k.name))
    \/ (Len(p.origin.label) > 0 /\ Contains(p.origin.label, k.name))
    \/ (Len(p.origin.label) > 0 /\ Contains(k.name, p.origin.label))
    \/ ObsMatch(k.name, p.deb_url.val)

\* e7 the other way round: the key name, lower-cased and with hyphens
\* replaced by spaces, in the lower-cased package name
e7_key_in_package(p, k) ==
    Contains(Replace(Lower(k.name), <<"-">>, <<" ">>), Lower(p.name))

e7(p, k) == Contains(Replace(p.name, <<"-">>, <<" ">>), Lower(k.name))

\* e1 or e2 or e3 or e4 or e5 or e6 or e7
KeyMatches(p, k) == OtherHeuristics(p, k) \/ e7(p, k)

\* what one element p adds to thirdparty_keys
KeysOf(p, apt_keys) ==
    LET cand == SelectSeq(apt_keys, LAMBDA k :
                    ~StartsWith(k.name, S_Launchpad) /\ KeyMatches(p, k))
    IN  [j \in 1..Len(cand) |-> [name |-> p.name, key |-> cand[j]]]

\* tp_info of one element: p['deb-url'] raises when the key is missing
TpInfo(p) ==
    IF ~p.deb_url.has THEN Raise("KeyError")
    ELSE Ok([name |-> p.name, repo |-> p.deb_url.val])

thirdparty_packages(pkg_thirdparty_deb_info) ==
    AllOk([k \in 1..Len(pkg_thirdparty_deb_info) |->
              TpInfo(pkg_thirdparty_deb_info[k])])

thirdparty_keys(pkg_thirdparty_deb_info, apt_keys) ==
    Concat([k \in 1..Len(pkg_thirdparty_deb_info) |->
               KeysOf(pkg_thirdparty_deb_info[k], apt_keys)])

\* the document once every list is built, or the exception that ends the
\* run before save_object is reached
BuildDoc(d, pkgs, pkg_ubuntu_info, deb_info, apt_keys, lpp, tpp) ==
    IF ~lpp.ok THEN lpp
    ELSE IF ~tpp.ok THEN tpp
    ELSE Ok([distro |-> d,
             package_stats |-> package_stats(pkgs),
             official_packages |-> official_packages(pkg_ubuntu_info),
             launchpad_ppa_packages |-> lpp.val,
             thirdparty_packages |-> tpp.val,
             thirdparty_keys |-> thirdparty_keys(deb_info.val, apt_keys.val),
             local_packages |-> pkg_local(pkgs)])

\* the shortcuts the debug output computes for the PPA packages
DebugShortcuts(ppa_info) ==
    AllOk([k \in 1..Len(ppa_info) |->
              IF ~debug_on THEN Ok(<<>>)
              ELSE IF ~ppa_info[k].deb_url.has THEN Raise("KeyError")
              ELSE apt_get_ppa_shortcut(ppa_info[k].deb_url.val)])

\* the parsed lists, in the order the code computes them
ParseLists(d, pkgs, apt_keys, pkg_ubuntu_info, ppa_info, deb_info) ==
    IF ~apt_keys.ok THEN apt_keys
    ELSE IF ~ppa_info.ok THEN ppa_info
    ELSE IF ~DebugShortcuts(ppa_info.val).ok THEN DebugShortcuts(ppa_info.val)
    ELSE IF ~deb_info.ok THEN deb_info
    ELSE BuildDoc(d, pkgs, pkg_ubuntu_info, deb_info, apt_keys,
                  launchpad_ppa_packages(ppa_info.val),
                  thirdparty_packages(deb_info.val))

\* the sorting loop and what follows it, on the installed packages
SortPackages(d, apt_cache, sources_list, pkgs) ==
    ParseLists(d, pkgs, HostKeys,
        apt_parse_debcache(apt_cache, pkg_ubuntu(pkgs)),
        apt_add_deb_url_to_deb_info(
            apt_parse_debcache(apt_cache, pkg_thirdparty_ppa(pkgs)), sources_list),
        apt_add_deb_url_to_deb_info(
            apt_parse_debcache(apt_cache, pkg_thirdparty_deb(pkgs)), sources_list))

InstalledPackages(d, apt_cache, sources_list) ==
    SortPackages(d, apt_cache, sources_list,
                 WithOrigin(apt_cache, installed(apt_cache)))

\* deb_pkg_list as the 'save' branch builds it, or the exception that ends
\* the run before save_object is reached
deb_pkg_list(h, d) == InstalledPackages(d, Cache(h), HostSourcesList(h))

(***************************************************************************)
(* save_object, load_object                                                *)
(***************************************************************************)
\* the file right after open(file_name, 'w'): it exists and holds nothing
EmptyFile == [exists |-> TRUE]

\* the file holds a document that jsonpickle.decode can read
HasDoc(file) == file.exists /\ "doc" \in DOMAIN file

\* the file after save_object(file_name, obj). The file is opened with 'w'
\* first, then obj is encoded, then the text is written by one write; when
\* jsonpickle.encode raises (encoded is FALSE) the with block is left with
\* the file open and empty. jsonpickle.decode gives back the dicts, lists
\* and strings jsonpickle.encode was given, and a distro object with the
\* same id and codename, so a written file is held as the document it
\* decodes to
save_object(obj, encoded) ==
    IF encoded THEN [exists |-> TRUE, doc |-> obj] ELSE EmptyFile

\* load_object(file_name): the object, or sys.exit() when the file cannot
\* be opened or decoded
load_object(file) ==
    IF HasDoc(file) THEN Ok(file.doc) ELSE Raise("SystemExit")

(***************************************************************************)
(* apt_operations('load')                                                  *)
(***************************************************************************)
F_SHEBANG == "#!/bin/bash"
F_GUARD == "lsb_release -cs | grep -q '{}' || { echo 'Error: you are running different system version. Script will stop.'; exit; }"
F_ARCH == "dpkg --add-architecture i386"
F_ADD_REPO == "add-apt-repository {}"
F_ADD_REPO_QUOTED == "add-apt-repository '{}'"
F_UPDATE == "apt-get update"
F_INSTALL == "apt install {}"
F_RECV_KEY == "apt-key adv --keyserver keyserver.ubuntu.com --recv {}"

\* a line of the script: the format string of the source with its argument,
\* and the part of the 'load' branch that appended it
Command(sect, fmt, arg) == [sect |-> sect, fmt |-> fmt, arg |-> arg]

\* append_command_to_script(filename, command), for several commands
append_command_to_script(lines, commands) == lines \o commands

\* the distro test of the 'load' branch
\* the distro test on the codename alone
SameCodename(doc, d) == doc.distro.codename = d.codename

SameDistro(doc, d) ==
    doc.distro.codename = d.codename /\ doc.distro.id = d.id

header_commands(d) ==
    <<Command("header", F_SHEBANG, <<>>),
      Command("header", F_GUARD, d.codename)>>

\* one command of a format for each element of a list
Commands(sect, fmt, args) ==
    [k \in 1..Len(args) |-> Command(sect, fmt, args[k])]

official_commands(doc) ==
    IF doc.package_stats.official > 0
    THEN <<Command("official", F_ARCH, <<>>)>>
         \o Commands("official", F_ADD_REPO,
                extract_unique_elements(doc.official_packages, "component"))
         \o <<Command("official", F_UPDATE, <<>>),
              Command("official", F_INSTALL,
                  Join(extract_unique_elements(doc.official_packages, "name"), <<" ">>))>>
    ELSE <<>>

ppa_commands(doc) ==
    IF doc.package_stats.ppas > 0
    THEN Commands("ppa", F_ADD_REPO,
             extract_unique_elements(doc.launchpad_ppa_packages, "repo"))
         \o <<Command("ppa", F_UPDATE, <<>>),
              Command("ppa", F_INSTALL,
                  Join(extract_unique_elements(doc.launchpad_ppa_packages, "name"), <<" ">>))>>
    ELSE <<>>

\* tpk['key'] of each unique key of thirdparty_keys
KeyIds(keys) == [k \in 1..Len(keys) |-> keys[k].key]

\* the third-party part with the repositories added before the keys
thirdparty_commands_repo_first(doc) ==
    IF doc.package_stats.thirdparty > 0
    THEN Commands("thirdparty", F_ADD_REPO_QUOTED,
             extract_unique_elements(doc.thirdparty_packages, "repo"))
         \o Commands("thirdparty", F_RECV_KEY,
                KeyIds(extract_unique_elements(doc.thirdparty_keys, "key")))
         \o <<Command("thirdparty", F_UPDATE, <<>>),
              Command("thirdparty", F_INSTALL,
                  Join(extract_unique_elements(doc.thirdparty_packages, "name"), <<" ">>))>>
    ELSE <<>>

thirdparty_commands(doc) ==
    IF doc.package_stats.thirdparty > 0
    THEN Commands("thirdparty", F_RECV_KEY,
             KeyIds(extract_unique_elements(doc.thirdparty_keys, "key")))
         \o Commands("thirdparty", F_ADD_REPO_QUOTED,
                extract_unique_elements(doc.thirdparty_packages, "repo"))
         \o <<Command("thirdparty", F_UPDATE, <<>>),
              Command("thirdparty", F_INSTALL,
                  Join(extract_unique_elements(doc.thirdparty_packages, "name"), <<" ">>))>>
    ELSE <<>>

\* the local packages are printed, nothing is appended to the script
local_commands(doc) == <<>>

\* with open(apt_script_file, 'w') as fsh: fsh.close()
open_w(file) == [exists |-> TRUE, lines |-> <<>>]

\* the commands the 'load' branch appends for a loaded document
doc_commands(doc, d) ==
    IF ~SameDistro(doc, d) THEN <<>>
    ELSE IF doc.package_stats.total > 0
    THEN header_commands(d) \o official_commands(doc) \o ppa_commands(doc)
             \o thirdparty_commands(doc) \o local_commands(doc)
    ELSE <<>>

\* the lines of apt.sh after the 'load' branch: the file is opened with 'w'
\* first, then the commands are appended one by one
script_lines(old, file, d) ==
    IF ~load_object(file).ok THEN open_w(old).lines
    ELSE append_command_to_script(open_w(old).lines,
             doc_commands(load_object(file).val, d))

(***************************************************************************)
(* Spec: runs of 'apt_save' and 'apt_load' on a host whose release may     *)
(* change between them.                                                    *)
(***************************************************************************)
Distro(id, codename) == [id |-> id, codename |-> codename]

InitialDistro == Distro(S_Ubuntu, S_bionic)
Distros ==
    {InitialDistro, Distro(S_Ubuntu, S_focal), Distro(S_Pop, S_bionic),
     Distro(S_Debian, S_buster)}

Event(op, result) == [op |-> op, result |-> result]

\* an apt.sh left by an earlier run
StaleScript ==
    [exists |-> TRUE,
     lines |-> <<Command("official", F_INSTALL, N_oldpkg)>>]

Init ==
    /\ host \in Hosts
    /\ distro = InitialDistro
    /\ snapshot = NoFile
    /\ script = StaleScript
    /\ last = Event("none", "none")
    /\ fnArg = <<>>
    /\ fnRets = NotCalled

\* srslsud.py apt_save; encoded tells whether jsonpickle.encode returns
\* or raises inside save_object
AptSave ==
    /\ LET r == deb_pkg_list(host, distro)
       IN  IF r.ok
           THEN \E encoded \in BOOLEAN :
                    /\ snapshot' = save_object(r.val, encoded)
                    /\ last' = Event("save", IF encoded THEN "saved"
                                             ELSE "EncodeError")
           ELSE /\ snapshot' = snapshot
                /\ last' = Event("save", r.exc)
    /\ UNCHANGED <<host, distro, script, fnArg, fnRets>>

\* srslsud.py apt_load
AptLoad ==
    /\ script' = [exists |-> TRUE, lines |-> script_lines(script, snapshot, distro)]
    /\ last' = IF ~load_object(snapshot).ok THEN Event("load", "exit")
               ELSE IF ~SameDistro(snapshot.doc, distro) THEN Event("load", "stopped")
               ELSE Event("load", "finished")
    /\ UNCHANGED <<host, distro, snapshot, fnArg, fnRets>>

\* after a snapshot was taken the host is upgraded to another release, or
\* replaced by a host of another distribution with the same packages
ChangeDistro ==
    /\ distro = InitialDistro
    /\ HasDoc(snapshot)
    /\ \E d \in Distros \ {distro} : distro' = d
    /\ last' = Event("host", "distro changed")
    /\ UNCHANGED <<host, snapshot, script, fnArg, fnRets>>

Next == AptSave \/ AptLoad \/ ChangeDistro

Spec == Init /\ [][Next]_vars

(***************************************************************************)
(* Claims about apt save and apt load                                      *)
(***************************************************************************)
\* the installed packages of the host with their first origins, as the
\* sorting loop sees them
HostPkgs == WithOrigin(Cache(host), installed(Cache(host)))

\* the names of a list of [name, origin]
NamesOf(pkgs) == {pkgs[k][1] : k \in 1..Len(pkgs)}

\* the names the sorting loop puts into each of its four lists
ListNames(b) ==
    CASE b = "official" -> NamesOf(pkg_ubuntu(HostPkgs))
      [] b = "ppa" -> NamesOf(pkg_thirdparty_ppa(HostPkgs))
      [] b = "thirdparty" -> NamesOf(pkg_thirdparty_deb(HostPkgs))
      [] b = "local" -> Elems(pkg_local(HostPkgs))

ListsHolding(n) ==
    {b \in {"official", "ppa", "thirdparty", "local"} : n \in ListNames(b)}

\* the buckets the script installs from
Buckets == {"official", "ppa", "thirdparty"}

\* the list of the snapshot that belongs to a bucket
SnapshotList(b) ==
    CASE b = "official" -> snapshot.doc.official_packages
      [] b = "ppa" -> snapshot.doc.launchpad_ppa_packages
      [] b = "thirdparty" -> snapshot.doc.thirdparty_packages

\* the positions of the lines of a format in a part of the script
LinesOf(b, fmt) ==
    {k \in 1..Len(script.lines) :
        script.lines[k].sect = b /\ script.lines[k].fmt = fmt}

\* the package names on the install lines of a bucket
InstalledBy(b) ==
    UNION {Elems(SplitWs(script.lines[k].arg)) : k \in LinesOf(b, F_INSTALL)}

\* apt load has just replayed the snapshot on a host of the same distro
Replayed == last = Event("load", "finished")

\* the candidate version of a package has a package index
HasPackageIndex(n) ==
    \E f \in Elems(CacheGet(Cache(host), n).file_list) :
        f.has_index /\ f.label = S_DPI

\* C1: once apt save has written the snapshot, every installed package name
\* is in exactly one of the four lists pkg_ubuntu, pkg_thirdparty_ppa,
\* pkg_thirdparty_deb, pkg_local, and the four counts of package_stats sum
\* to its total
EachPackageInExactlyOneList ==
    last = Event("save", "saved") =>
        /\ \A n \in NamesOf(HostPkgs) : Cardinality(ListsHolding(n)) = 1
        /\ snapshot.doc.package_stats.official + snapshot.doc.package_stats.ppas
               + snapshot.doc.package_stats.thirdparty
               + snapshot.doc.package_stats.local
           = snapshot.doc.package_stats.total

DistroDiffers ==
    /\ HasDoc(snapshot)
    /\ \/ snapshot.doc.distro.id # distro.id
       \/ snapshot.doc.distro.codename # distro.codename

\* C3: after apt load on a host whose distro id or codename differs from
\* the snapshot's, the script holds at most the interpreter line and the
\* guard line
MismatchedLoadWritesNoCommands ==
    (last.op = "load" /\ DistroDiffers) =>
        \A k \in 1..Len(script.lines) :
            script.lines[k].fmt \in {F_SHEBANG, F_GUARD}

\* a stopped load of a snapshot with packages, for another distro id, that
\* left the script empty
MismatchedLoadStopped ==
    /\ last = Event("load", "stopped")
    /\ DistroDiffers
    /\ snapshot.doc.distro.codename = distro.codename
    /\ snapshot.doc.package_stats.total > 0
    /\ script = [exists |-> TRUE, lines |-> <<>>]

\* the place of a line in the order of the script: its part, then its kind
SectRank(sect) ==
    CASE sect = "header" -> 0
      [] sect = "official" -> 1
      [] sect = "ppa" -> 2
      [] sect = "thirdparty" -> 3

KindRank(fmt) ==
    CASE fmt = F_SHEBANG -> 0
      [] fmt = F_GUARD -> 1
      [] fmt = F_ARCH -> 2
      [] fmt = F_RECV_KEY -> 3
      [] fmt \in {F_ADD_REPO, F_ADD_REPO_QUOTED} -> 4
      [] fmt = F_UPDATE -> 5
      [] fmt = F_INSTALL -> 6

LineRank(l) == <<SectRank(l.sect), KindRank(l.fmt)>>

RankLeq(a, b) == a[1] < b[1] \/ (a[1] = b[1] /\ a[2] <= b[2])

\* C4: in a script produced by apt load the guard line comes before every
\* command, the buckets come in the order official, PPA, third-party, and
\* inside a bucket the key imports come before the repository additions,
\* these before the one update, and the update before the install
ScriptInFixedOrder ==
    script # StaleScript =>
        /\ \A i, j \in 1..Len(script.lines) :
               i < j => RankLeq(LineRank(script.lines[i]), LineRank(script.lines[j]))
        /\ \A i, j \in 1..Len(script.lines) :
               (script.lines[i].fmt = F_GUARD /\ script.lines[j].fmt # F_SHEBANG
                    /\ i # j) => i < j
        /\ Len(script.lines) > 0 => \E i \in 1..Len(script.lines) :
               script.lines[i].fmt = F_GUARD

\* a script with a PPA part and a third-party part that imports a key
ScriptWithTwoBuckets ==
    /\ Replayed
    /\ LinesOf("ppa", F_ADD_REPO) # {}
    /\ LinesOf("ppa", F_INSTALL) # {}
    /\ LinesOf("thirdparty", F_RECV_KEY) # {}
    /\ LinesOf("thirdparty", F_ADD_REPO_QUOTED) # {}
    /\ LinesOf("thirdparty", F_INSTALL) # {}

\* the names of the elements of a list of the snapshot
ElementNames(list) == {list[k].name : k \in 1..Len(list)}

\* how often a name stands on the install lines of a bucket
TimesInstalled(b, n) ==
    Cardinality({<<k, i>> \in LinesOf(b, F_INSTALL) \X (1..MaxFiles * NumPkgs) :
        /\ i <= Len(SplitWs(script.lines[k].arg))
        /\ SplitWs(script.lines[k].arg)[i] = n})

\* C5: after a replay the script has exactly one update line and one
\* install line for each bucket whose list in the snapshot is not empty and
\* none for a bucket whose list is empty, and the install line names every
\* package of the list exactly once
OneUpdateAndInstallPerListedBucket ==
    Replayed =>
        \A b \in Buckets :
            IF Len(SnapshotList(b)) > 0
            THEN /\ Cardinality(LinesOf(b, F_UPDATE)) = 1
                 /\ Cardinality(LinesOf(b, F_INSTALL)) = 1
                 /\ \A n \in ElementNames(SnapshotList(b)) : TimesInstalled(b, n) = 1
            ELSE LinesOf(b, F_UPDATE) = {} /\ LinesOf(b, F_INSTALL) = {}

\* C6: after a replay of a snapshot with third-party packages the script
\* imports each key id of thirdparty_keys, and none of them twice
EachKeyIdImportedOnce ==
    (Replayed /\ Len(snapshot.doc.thirdparty_packages) > 0) =>
        /\ {script.lines[k].arg : k \in LinesOf("thirdparty", F_RECV_KEY)}
               = {snapshot.doc.thirdparty_keys[k].key.key :
                      k \in 1..Len(snapshot.doc.thirdparty_keys)}
        /\ \A i, j \in LinesOf("thirdparty", F_RECV_KEY) :
               script.lines[i].arg = script.lines[j].arg => i = j

\* the lines of the script that are comments: they begin with "#" and are
\* not the interpreter line
CommentLines ==
    {k \in 1..Len(script.lines) :
        script.lines[k].fmt \notin
            {F_SHEBANG, F_GUARD, F_ARCH, F_ADD_REPO, F_ADD_REPO_QUOTED,
             F_UPDATE, F_INSTALL, F_RECV_KEY}}

\* C7: after a replay of a snapshot with local packages every local package
\* name stands in a comment line of the script and in no install command
LocalPackagesOnlyInComments ==
    (Replayed /\ Len(snapshot.doc.local_packages) > 0) =>
        \A n \in Elems(snapshot.doc.local_packages) :
            /\ \E k \in CommentLines : Contains(n, script.lines[k].arg)
            /\ \A b \in Buckets : n \notin InstalledBy(b)


\* the bucket the cascade gives a first origin on a host of a distro
Cascade(o, d) ==
    IF o.origin = distro_name(d) THEN "official"
    ELSE IF o.trusted /\ o.archive # S_now /\ StartsWith(o.origin, S_LP_PPA)
    THEN "ppa"
    ELSE IF o.trusted /\ o.archive # S_now THEN "thirdparty"
    ELSE "local"

\* C11: after the sorting loop of apt save on an Ubuntu or Debian host every
\* installed package is in the one list the cascade names: official iff its
\* origin is the official one of the detected distro, otherwise PPA iff
\* trusted, not 'now' and from an LP-PPA origin, otherwise third-party iff
\* trusted and not 'now', otherwise local
ClassifierFollowsCascade ==
    (last.op = "save" /\ distro_name(distro) # <<>>) =>
        \A k \in 1..Len(HostPkgs) :
            ListsHolding(HostPkgs[k][1]) = {Cascade(HostPkgs[k][2], distro)}

\* C12: a run of apt save or apt load on a host whose distro is neither
\* Ubuntu nor Debian writes no snapshot and leaves the script file as it was
UnsupportedDistroRunWritesNothing ==
    [][distro_name(distro) = <<>> =>
           (snapshot' = snapshot /\ script' = script)]_vars

\* C13: a run of apt save that ends with an error, before or inside
\* save_object, leaves the snapshot file with the content it had, and the
\* snapshot file never exists without a whole document
AbortedSaveKeepsSnapshot ==
    [][/\ (last'.op = "save" /\ last'.result # "saved") => snapshot' = snapshot
       /\ snapshot'.exists => HasDoc(snapshot')]_vars

\* C14: apt save never ends with the KeyError or IndexError of an origin
\* that could not be resolved, and a snapshot it wrote lacks only the
\* packages whose candidate version has no package index
UnresolvedOriginNeverAbortsSave ==
    /\ last.op = "save" => last.result \notin {"KeyError", "IndexError"}
    /\ last = Event("save", "saved") =>
           \A b \in Buckets :
               ElementNames(SnapshotList(b))
                   = {n \in ListNames(b) : HasPackageIndex(n)}

\* C15: in a snapshot apt save wrote, each category count of package_stats
\* is the length of the list of that category in the same snapshot
StatsCountFinalLists ==
    last = Event("save", "saved") =>
        /\ snapshot.doc.package_stats.official
               = Len(snapshot.doc.official_packages)
        /\ snapshot.doc.package_stats.ppas
               = Len(snapshot.doc.launchpad_ppa_packages)
        /\ snapshot.doc.package_stats.thirdparty
               = Len(snapshot.doc.thirdparty_packages)
        /\ snapshot.doc.package_stats.local
               = Len(snapshot.doc.local_packages)

\* the index URI of the package indexes of an installed package
IndexUriOf(n) ==
    IndexUri((CHOOSE p \in Elems(HostPkgs) : p[1] = n)[2].origin, host.sources)

\* the positions of the source lines that contain the index URI of a package
MatchingLines(n) ==
    {k \in 1..Len(HostSourcesList(host)) :
        Contains(IndexUriOf(n), HostSourcesList(host)[k])}

\* the first source line that contains the index URI of a package
FirstMatchingLine(n) ==
    HostSourcesList(host)[CHOOSE k \in MatchingLines(n) :
                              \A j \in MatchingLines(n) : k <= j]

\* C16: in a snapshot apt save wrote, the repo of each third-party package
\* is the first source line that contains its index URI, without its
\* signed-by option
DebUrlIsFirstMatchingLine ==
    last = Event("save", "saved") =>
        \A k \in 1..Len(snapshot.doc.thirdparty_packages) :
            LET e == snapshot.doc.thirdparty_packages[k]
            IN  e.repo = apt_remove_word_from_brackets_in_sources_list(
                             FirstMatchingLine(e.name), SIGNED_BY).val

\* the element of pkg_thirdparty_deb_info behind an element of
\* thirdparty_packages
TpElement(e) ==
    [name |-> e.name,
     origin |-> (CHOOSE p \in Elems(HostPkgs) : p[1] = e.name)[2],
     deb_url |-> Entry(e.repo)]

\* the keys of the host that are candidates for third-party packages
CandidateKeys ==
    {k \in Elems(HostKeys.val) : ~StartsWith(k.name, S_Launchpad)}

\* the pair of a package and a key is in thirdparty_keys of the snapshot
Recorded(e, k) ==
    [name |-> e.name, key |-> k] \in Elems(snapshot.doc.thirdparty_keys)

\* heuristic (d) as the claim words it, and with package and key exchanged
KeyNameInPackageName(e, k) ==
    Contains(Replace(Lower(k.name), <<"-">>, <<" ">>), Lower(e.name))
PackageNameInKeyName(e, k) ==
    Contains(Replace(e.name, <<"-">>, <<" ">>), Lower(k.name))

\* C17: in a snapshot apt save wrote, a third-party package and a candidate
\* key are recorded whenever the key name, lower-cased and with hyphens
\* replaced by spaces, is in the lower-cased package name, and when no other
\* heuristic holds they are recorded exactly then
KeyRecordedWhenKeyNameInPackageName ==
    last = Event("save", "saved") =>
        \A i \in 1..Len(snapshot.doc.thirdparty_packages) :
            \A k \in CandidateKeys :
                LET e == snapshot.doc.thirdparty_packages[i]
                IN  /\ KeyNameInPackageName(e, k) => Recorded(e, k)
                    /\ ~OtherHeuristics(TpElement(e), k) =>
                           (Recorded(e, k) <=> KeyNameInPackageName(e, k))

\* C17 as amended: in a snapshot apt save wrote, a third-party package and
\* a candidate key are recorded whenever the package name, with hyphens
\* replaced by spaces, is in the lower-cased key name, and when no other
\* heuristic holds they are recorded exactly then
KeyRecordedWhenPackageNameInKeyName ==
    last = Event("save", "saved") =>
        \A i \in 1..Len(snapshot.doc.thirdparty_packages) :
            \A k \in CandidateKeys :
                LET e == snapshot.doc.thirdparty_packages[i]
                IN  /\ PackageNameInKeyName(e, k) => Recorded(e, k)
                    /\ ~OtherHeuristics(TpElement(e), k) =>
                           (Recorded(e, k) <=> PackageNameInKeyName(e, k))

\* a snapshot with a third-party package, a key recorded for it by (d)
\* alone and a candidate key no heuristic records
KeyRecordedByPackageNameAlone ==
    /\ last = Event("save", "saved")
    /\ \E i \in 1..Len(snapshot.doc.thirdparty_packages) :
           LET e == snapshot.doc.thirdparty_packages[i]
           IN  /\ \E k \in CandidateKeys :
                      /\ ~OtherHeuristics(TpElement(e), k)
                      /\ PackageNameInKeyName(e, k)
                      /\ Recorded(e, k)
               /\ \E k \in CandidateKeys :
                      /\ ~OtherHeuristics(TpElement(e), k)
                      /\ ~PackageNameInKeyName(e, k)
                      /\ ~Recorded(e, k)

(***************************************************************************)
(* Claims about the helpers.                                               *)
(***************************************************************************)
\* the text of the line before "[", between "[" and "]", and after "]"
BeforeBlock(e) == SubSeq(e, 1, Find(e, <<"[">>, 1) - 1)
InsideBlock(e) == SubSeq(e, Find(e, <<"[">>, 1) + 1, Find(e, <<"]">>, 1) - 1)
AfterBlock(e) == SubSeq(e, Find(e, <<"]">>, 1) + 1, Len(e))

\* the line has exactly one options block "[...]"
HasOneOptionsBlock(e) ==
    /\ Len(Split(e, <<"[">>)) = 2
    /\ Len(Split(e, <<"]">>)) = 2
    /\ Find(e, <<"[">>, 1) < Find(e, <<"]">>, 1)

\* the line with the option tokens that hold the word taken out of its block
WithoutWord(e, word) ==
    BeforeBlock(e) \o <<"[">>
        \o Join(SelectSeq(SplitWs(InsideBlock(e)), LAMBDA tok : ~Contains(word, tok)),
                <<" ">>)
        \o <<"]">> \o AfterBlock(e)

\* C8: normalizing a source-list line a second time, with 'signed-by' as the
\* word to strip, gives the result of the first normalization again.
NormalizeIdempotent ==
    Len(fnRets) = 2 => fnRets[2] = fnRets[1]

\* C9: for a line with exactly one options block the result is the line with
\* exactly the option tokens without the strip word left in the block, in
\* their order, the text after the block unchanged, and an empty "[]" after
\* "deb" when no token is left.
NormalizeKeepsOtherOptions ==
    (Len(fnRets) >= 1 /\ HasOneOptionsBlock(fnArg))
        => fnRets[1] = Ok(WithoutWord(fnArg, SIGNED_BY))

\* the URL has two non-empty path segments after "ppa.launchpad.net/"
HasTwoSegments(url) ==
    /\ Contains(PPA_HOST, url)
    /\ LET segs == Split(Split(url, PPA_HOST)[2], <<"/">>)
       IN  Len(segs) >= 2 /\ segs[1] # <<>> /\ segs[2] # <<>>

\* C10: apt_get_ppa_shortcut does not raise, and returns "" for every URL
\* without two path segments after the host marker (marker absent, or the
\* second segment empty).
PpaShortcutEmptyWithoutTwoSegments ==
    (Len(fnRets) = 1 /\ ~HasTwoSegments(fnArg)) => fnRets[1] = Ok(<<>>)

\* the positions of the 'pub' records of the input, and the i-th of them
PubPositions ==
    {k \in 1..Len(fnArg) : Split(fnArg[k], <<":">>)[1] = S_pub}
NthPub(i) ==
    CHOOSE k \in PubPositions :
        Cardinality({j \in PubPositions : j <= k}) = i

\* C18: apt_key_list returns for every sequence of records, without an
\* exception, one key for each 'pub' record, in their order, with the id
\* and the expiry of that record
OneKeyPerPubRecord ==
    Len(fnRets) = 1 =>
        /\ fnRets[1].ok
        /\ Len(fnRets[1].val) = Cardinality(PubPositions)
        /\ \A i \in 1..Len(fnRets[1].val) :
               LET fields == Split(fnArg[NthPub(i)], <<":">>)
               IN  /\ fnRets[1].val[i].key = fields[5]
                   /\ fnRets[1].val[i].expiry = IsoDate(fields[6])

====
